---- MODULE Spec2Model ----
(***************************************************************************)
(* The recording session lifecycle of the ScreenRecorder plugin.  The     *)
(* repository holds two implementations of it: the handlers of main.js    *)
(* over module-level variables, and the FFmpegService class.  Both keep   *)
(* the same fields (isRecording, recordingProcess, currentRecordingPath,  *)
(* a stored force-kill timer handle); impl says which one a behaviour     *)
(* runs.  The host platform is Windows (dshow, gdigrab, taskkill), so a   *)
(* process spawned with {shell: true} has spawnfile cmd.exe.              *)
(*                                                                         *)
(* One step of the model is one turn of the Node event loop: an IPC call, *)
(* the resumption of a suspended call, a timer callback, an exec          *)
(* callback, a promise reaction or the emission of a child process event  *)
(* (all listeners of one emit run in the same step).  The operating       *)
(* system side (a process exiting, taskkill doing its work, time passing) *)
(* has steps of its own.                                                   *)
(***************************************************************************)
EXTENDS Integers, Sequences, FiniteSets, TLC

\* ------------------------------------------------------------ bounds
MaxSessions == 2      \* startRecording calls that pass the isRecording guard
MaxStops == 2         \* stopRecording calls that pass their guard
MaxCalls == 3         \* startRecording and stopRecording calls that pass
MaxSpawns == 4        \* capture processes spawned in a run of the camera ladder
MaxLadderCalls == 2   \* calls that pass their guard in a run of the camera ladder
MaxRegion == 19       \* largest width and height of a selected region
MaxCoord == 1         \* largest x and y of a selected region
MaxRetriesOption == 4 \* largest options.maxRetries of a handleWithRetry call
MaxRetryCalls == 7    \* handleWithRetry calls in a run
MaxEnumerations == 3  \* runs of the audio enumeration command in a run
TickMs == 1000        \* resolution of the clock the timers are measured with

\* ------------------------------------------------- program constants
ForceKillMs == 3000       \* main.js:1338, CONFIG.RECORDING.FORCE_KILL_TIMEOUT
StdinTimeoutMs == 2000    \* main.js:1148
FinalizeMs == 500         \* main.js:1290
MinValidBytes == 1024     \* main.js:1037
RetryMs == 1000           \* main.js:924
NumFallbacks == 3         \* main.js:757, the length of fallbackCommands
MinRegionSize == 16       \* utils/logger.js:98, CONFIG.RECORDING.MIN_REGION_SIZE
DefaultMaxRetries == 3    \* unnamed/part_001:9, ErrorHandler.maxRetries
RetryDelays == <<1000, 2000, 5000>>   \* unnamed/part_001:10

Ticks(ms) == (ms + TickMs - 1) \div TickMs

Null == <<>>          \* a null path

\* File sizes are kept by class: 0 (missing or empty), 1 (1..MinValidBytes
\* bytes), 2 (more than MinValidBytes bytes).
SizeClasses == {0, 1, 2}
Unknown == -1         \* the size of a file nobody has looked at yet
SizeClassOf(bytes) == IF bytes <= 0 THEN 0 ELSE IF bytes > MinValidBytes THEN 2 ELSE 1

VARIABLES
    impl,                  \* "main" (main.js) or "service" (FFmpegService)
    resolveUp,             \* DaVinci Resolve can be reached and takes the clip
    isRecording,
    recordingProcess,      \* 0 is null, otherwise an index of procs
    currentRecordingPath,
    originalRecordingPath, \* main.js only
    timelineAdded,         \* main.js only
    forceKillTimeout,      \* stored timer handle: 0 is null, otherwise the
                           \* number of the stopRecording call that armed it
    procs,                 \* every child process spawned so far
    timers,                \* pending setTimeout callbacks, in arming order
    tasks,                 \* pending exec callbacks and promise reactions
    starts,                \* startRecording calls suspended at an await
    sess,                  \* per session: what the callers have seen
    reply,                 \* the last value returned to a caller
    thrown,                \* a callback raised an uncaught exception
    nstops,                \* stopRecording calls accepted so far
    rendererIsRecording,   \* isRecording of renderer.js
    availableAudioDevices, \* main.js: the cached audio devices
    enumerations,          \* every run of the audio enumeration command
    errorCounts,           \* ErrorHandler: retries counted per error key
    input,                 \* what the user selected or asked for
    output                 \* what was made of it

vars == <<impl, resolveUp, input, output, availableAudioDevices, enumerations,
          errorCounts, isRecording, recordingProcess, currentRecordingPath,
          originalRecordingPath, timelineAdded, forceKillTimeout, procs,
          timers, tasks, starts, sess, reply, thrown, nstops, rendererIsRecording>>

\* The part of the state the handlers read and write, as one record, so
\* that the listeners of one emit compose: each handler below maps a world
\* to the world it leaves.
World ==
    [isRecording |-> isRecording, recordingProcess |-> recordingProcess,
     currentRecordingPath |-> currentRecordingPath,
     originalRecordingPath |-> originalRecordingPath,
     timelineAdded |-> timelineAdded, forceKillTimeout |-> forceKillTimeout,
     procs |-> procs, timers |-> timers, tasks |-> tasks, sess |-> sess,
     starts |-> starts, reply |-> reply, thrown |-> thrown,
     nstops |-> nstops, rendererIsRecording |-> rendererIsRecording]

\* reply is the value the step returns to its caller; a step that returns
\* nothing leaves none.
NoReply == [op |-> "none", ok |-> FALSE, error |-> "none"]
Reply(op, ok, error) == [op |-> op, ok |-> ok, error |-> error]
Silent(W) == [W EXCEPT !.reply = NoReply]

\* the state of the parts no recording handler touches
others == <<availableAudioDevices, enumerations, errorCounts>>

\* startRecording of renderer.js after its await: a result with success
\* sets the renderer's flag
RendererAfterReply(W) ==
    IF W.reply.op = "start" /\ W.reply.ok THEN TRUE ELSE W.rendererIsRecording

Commit(W) ==
    /\ isRecording' = W.isRecording
    /\ recordingProcess' = W.recordingProcess
    /\ currentRecordingPath' = W.currentRecordingPath
    /\ originalRecordingPath' = W.originalRecordingPath
    /\ timelineAdded' = W.timelineAdded
    /\ forceKillTimeout' = W.forceKillTimeout
    /\ procs' = W.procs
    /\ timers' = W.timers
    /\ tasks' = W.tasks
    /\ sess' = W.sess
    /\ starts' = W.starts
    /\ reply' = W.reply
    /\ thrown' = W.thrown
    /\ nstops' = W.nstops
    /\ rendererIsRecording' = RendererAfterReply(W)

RemoveAt(q, i) == [j \in 1..(Len(q) - 1) |-> IF j < i THEN q[j] ELSE q[j + 1]]

\* ------------------------------------------------------- primitives

Timer(kind, ms, s, path, k) ==
    [kind |-> kind, left |-> Ticks(ms), sess |-> s, path |-> path, k |-> k]

Task(type, phase, target, s, path) ==
    [type |-> type, phase |-> phase, target |-> target, sess |-> s, path |-> path]

\* child_process.spawn: a new running process; shell says whether it was
\* spawned with {shell: true}.  late records that the process closed while
\* a force-kill timer of its session was due, so that the timer ran right
\* after the close handlers.  tries and io are the currentAttempt and
\* ioErrorDetected parameters of the _setupCameraProcessHandlers call made
\* for the process (FFmpegService; the handlers of that call share them).
NewProc(s, src, shell, path) ==
    [sess |-> s, src |-> src, shell |-> shell, path |-> path,
     st |-> "running", code |-> -1, signal |-> "none", sent |-> "none",
     size |-> Unknown, listeners |-> 0, added |-> 0, late |-> FALSE,
     tries |-> 0, io |-> FALSE]

Spawn(W, s, src, shell, path) ==
    [W EXCEPT !.procs = Append(@, NewProc(s, src, shell, path)),
              !.recordingProcess = Len(W.procs) + 1]

\* ChildProcess.kill(signal): delivers the signal and sets killed only while
\* the process is running; on a process that has exited it returns false.
Kill(W, p, signal) ==
    IF W.procs[p].st = "running"
    THEN [W EXCEPT !.procs[p].sent = signal]
    ELSE W

Killed(W, p) == W.procs[p].sent # "none"

\* clearTimeout(handle)
ClearTimeout(W, h) ==
    [W EXCEPT !.timers = SelectSeq(@, LAMBDA t : ~(t.kind = "forceKill" /\ t.k = h))]

\* The size fs.statSync reports for a path.  A file is written by the
\* process that was spawned with its path; once the process has exited the
\* size is fixed, and it is drawn when it is first looked at (seen), so that
\* every later look agrees.  While the writer runs, a look sees whatever has
\* been written so far.
\* Only the camera ladder tells an empty file from a small one
\* (stats.size > 0), and it does so for the files of its own attempts: for
\* every other file the classes 0 and 1 are one class, kept as 0.
Writers(W, path) == {p \in DOMAIN W.procs : W.procs[p].path = path}
Writer(W, path) == CHOOSE q \in Writers(W, path) : \A r \in Writers(W, path) : r <= q
SizeSeen(W, p, seen) == IF seen = 1 /\ W.procs[p].src # "camera" THEN 0 ELSE seen
FileSize(W, path, seen) ==
    IF Writers(W, path) = {} THEN 0
    ELSE LET p == Writer(W, path)
         IN IF W.procs[p].st # "running" /\ W.procs[p].size # Unknown
            THEN W.procs[p].size ELSE SizeSeen(W, p, seen)
Looked(W, path, seen) ==
    IF Writers(W, path) = {} THEN W
    ELSE LET p == Writer(W, path)
         IN IF W.procs[p].st # "running" /\ W.procs[p].size = Unknown
            THEN [W EXCEPT !.procs[p].size = SizeSeen(W, p, seen)] ELSE W

\* handleRecordingCompleted of renderer.js: the renderer's flag after the
\* event
HandleRecordingCompleted(flag, ok) == IF ok THEN FALSE ELSE flag

\* mainWindow.webContents.send('recording:completed', ...) in main.js,
\* onComplete(...) in FFmpegService, and the renderer's handler of it.
SendCompleted(W, s, ok) ==
    [W EXCEPT !.sess[s].done = @ + 1,
              !.sess[s].oks = IF ok THEN @ + 1 ELSE @,
              !.rendererIsRecording = HandleRecordingCompleted(@, ok)]

\* The success field of the value addRecordingToTimeline resolves with: it
\* catches every error and resolves {success: false, error} when Resolve,
\* its media pool, its project or its timeline cannot be had.
TimelineResult == resolveUp

\* the event of the reaction: the timeline result goes along as
\* timelineResult, counted when it says failure
SendWithTimelineResult(W, s, ok) ==
    [SendCompleted(W, s, ok) EXCEPT
         !.sess[s].advisories = IF TimelineResult THEN @ ELSE @ + 1]

\* an addRecordingToTimeline whose reaction reports the timeline result as
\* the result of the recording
AddRecordingToTimelineDowngrading(W, s, path) ==
    SendWithTimelineResult([W EXCEPT !.timelineAdded = TRUE,
                                     !.procs[Writer(W, path)].added = @ + 1],
                           s, TimelineResult)

\* timelineAdded = true; addRecordingToTimeline(null, path).then(send).
\* The reaction only sends the event, success: true with the timeline
\* result inside: it reads and writes nothing else, so it is taken in the
\* same step.
AddRecordingToTimeline(W, s, path) ==
    SendWithTimelineResult([W EXCEPT !.timelineAdded = TRUE,
                                     !.procs[Writer(W, path)].added = @ + 1],
                           s, TRUE)

\* a stopRecording call was accepted for session s: the record of it
Stopped(W, s) ==
    [W EXCEPT !.nstops = @ + 1,
              !.sess[s].stops = @ + 1,
              !.sess[s].twice = @ \/ (W.reply.op = "stop" /\ W.reply.ok /\ W.sess[s].stops > 0),
              !.reply = Reply("stop", TRUE, "none")]

\* ------------------------------------------------ main.js: handlers

\* processOBSRecording, up to its setTimeout.  The deferred callback does
\* nothing when completedFilePath is null, so no timer is kept for it then.
ProcessOBSRecording(W, s) ==
    LET completedFilePath ==
            IF W.currentRecordingPath # Null THEN W.currentRecordingPath
            ELSE W.originalRecordingPath
    IN [W EXCEPT !.recordingProcess = 0,
                 !.isRecording = FALSE,
                 !.currentRecordingPath = Null,
                 !.originalRecordingPath = Null,
                 !.timers = IF completedFilePath = Null THEN @
                            ELSE Append(@, Timer("obsCheck", FinalizeMs, s, completedFilePath, 0))]

\* the callback processOBSRecording defers by 500 ms
OBSCheck(W0, t, seen) ==
    LET W == Looked(W0, t.path, seen)
    IN IF t.path = Null THEN W
       ELSE IF FileSize(W, t.path, seen) = 2
            THEN IF ~W.timelineAdded
                 THEN AddRecordingToTimeline(W, t.sess, t.path)
                 ELSE W
            ELSE SendCompleted(W, t.sess, FALSE)

\* handleSuccessfulOBSKill
HandleSuccessfulOBSKill(W, s) ==
    ProcessOBSRecording(
        IF W.forceKillTimeout # 0
        THEN [ClearTimeout(W, W.forceKillTimeout) EXCEPT !.forceKillTimeout = 0]
        ELSE W, s)

\* the close listener stopRecording registers on a shell process
StopCloseListener(W, p) ==
    LET c == W.procs[p].code
        sg == W.procs[p].signal
    IN IF sg = "SIGTERM" \/ (sg = "none" /\ (c = 0 \/ c = 1))
       THEN ProcessOBSRecording(W, W.procs[p].sess)
       ELSE W

\* the close handler of a directly spawned desktop/window/region capture
ScreenClose(W, p, seen) ==
    LET c == W.procs[p].code
        s == W.procs[p].sess
        outputPath == W.procs[p].path
        W1 == [W EXCEPT !.isRecording = FALSE, !.recordingProcess = 0]
        W2 == Looked(W1, outputPath, seen)
    IN IF c = 0 /\ ~W1.timelineAdded
       THEN AddRecordingToTimeline(W1, s, outputPath)
       ELSE IF c # -1 /\ c # 0
            THEN IF FileSize(W2, outputPath, seen) = 2
                 THEN IF ~W2.timelineAdded
                      THEN AddRecordingToTimeline(W2, s, outputPath)
                      ELSE W2
                 ELSE SendCompleted(W2, s, FALSE)
            ELSE W1

\* the error handler of a directly spawned desktop/window/region capture
ScreenError(W, p) ==
    SendCompleted([W EXCEPT !.isRecording = FALSE, !.recordingProcess = 0],
                  W.procs[p].sess, FALSE)

\* the close handler of the shell-spawned capture with an audio device
AudioShellClose(W, p) ==
    LET W1 == [W EXCEPT !.isRecording = FALSE, !.recordingProcess = 0,
                        !.currentRecordingPath = Null]
    IN IF ~W1.timelineAdded
       THEN AddRecordingToTimeline(W1, W.procs[p].sess, W.procs[p].path)
       ELSE W1

\* attemptRecording of the regular camera ladder
AttemptRecording(W, s) ==
    IF W.sess[s].attempt >= NumFallbacks
    THEN SendCompleted([W EXCEPT !.isRecording = FALSE, !.recordingProcess = 0,
                                 !.currentRecordingPath = Null], s, FALSE)
    ELSE [Spawn(W, s, "camera", TRUE, <<s, W.sess[s].attempt>>) EXCEPT
              !.sess[s].ioError = FALSE]

\* the close handler attemptRecording attaches to its process
AttemptClose(W, p, seen) ==
    LET c == W.procs[p].code
        sg == W.procs[p].signal
        s == W.procs[p].sess
        currentOutputPath == W.procs[p].path
        wasManuallyStopped ==
            \/ sg = "SIGTERM" \/ sg = "SIGKILL"
            \/ (sg = "none" /\ c # 0 /\ c # -1)
            \/ (sg = "none" /\ c = 1)
        wasStopped == sg = "SIGTERM" \/ (sg = "none" /\ c = 1)
        completedFilePath ==
            IF W.currentRecordingPath # Null THEN W.currentRecordingPath
            ELSE W.originalRecordingPath
        Wm == [W EXCEPT !.isRecording = FALSE, !.recordingProcess = 0,
                        !.currentRecordingPath = Null]
        Wl == Looked(Wm, completedFilePath, seen)
        isValidRecording ==
            wasStopped /\ completedFilePath # Null
                       /\ FileSize(Wl, completedFilePath, seen) = 2
        Wo == Looked(W, currentOutputPath, seen)
    IN IF wasManuallyStopped
       THEN IF isValidRecording /\ ~Wl.timelineAdded
            THEN AddRecordingToTimeline(Wl, s, completedFilePath)
            ELSE SendCompleted(IF wasStopped /\ completedFilePath # Null THEN Wl ELSE Wm,
                               s, FALSE)
       ELSE IF c = 0 /\ ~W.sess[s].ioError /\ FileSize(Wo, currentOutputPath, seen) > 0
            THEN LET W1 == [Wo EXCEPT !.isRecording = FALSE, !.recordingProcess = 0,
                                      !.currentRecordingPath = Null]
                 IN IF ~W1.timelineAdded
                    THEN AddRecordingToTimeline(W1, s, currentOutputPath)
                    ELSE W1
            ELSE [(IF c = 0 /\ ~W.sess[s].ioError THEN Wo ELSE W) EXCEPT
                      !.sess[s].attempt = @ + 1,
                      !.sess[s].fails = @ + 1,
                      !.timers = Append(@, Timer("retry", RetryMs, s, Null, 0))]

\* the error handler attemptRecording attaches to its process
AttemptError(W, p) ==
    LET s == W.procs[p].sess
        W1 == [W EXCEPT !.sess[s].attempt = @ + 1, !.sess[s].fails = @ + 1]
    IN IF W1.sess[s].attempt >= NumFallbacks
       THEN SendCompleted([W1 EXCEPT !.isRecording = FALSE, !.recordingProcess = 0,
                                     !.currentRecordingPath = Null], s, FALSE)
       ELSE [W1 EXCEPT !.timers = Append(@, Timer("retry", RetryMs, s, Null, 0))]

\* The listeners a process of main.js carries, run in registration order:
\* the one startRecording attached, then one per stopRecording call.
RECURSIVE RunStopListeners(_, _, _)
RunStopListeners(W, p, n) ==
    IF n = 0 THEN W ELSE RunStopListeners(StopCloseListener(W, p), p, n - 1)

MainOwnClose(W, p, seen) ==
    CASE W.procs[p].src = "screen" -> ScreenClose(W, p, seen)
      [] W.procs[p].src = "audio" -> AudioShellClose(W, p)
      [] W.procs[p].src = "camera" -> AttemptClose(W, p, seen)
      [] OTHER -> W

MainEmitClose(W, p, seen) ==
    RunStopListeners(MainOwnClose(W, p, seen), p, W.procs[p].listeners)

\* the exec(taskkill) callback of stopRecording
MainTaskkillCallback(W, t) ==
    IF t.phase = "err"
    THEN IF W.recordingProcess = 0
         THEN [W EXCEPT !.thrown = TRUE]
         ELSE Kill(W, W.recordingProcess, "SIGTERM")
    ELSE HandleSuccessfulOBSKill(W, t.sess)

\* the 2 s fallback stopRecording arms after writing the quit token
MainStdinTimeout(W, t) ==
    IF W.recordingProcess # 0 /\ ~Killed(W, W.recordingProcess)
    THEN [W EXCEPT !.tasks = Append(@, Task("taskkill", "issued", W.recordingProcess, t.sess, Null))]
    ELSE W

\* the force-kill timeout of stopRecording
MainForceKill(W) ==
    IF W.recordingProcess # 0 /\ ~Killed(W, W.recordingProcess)
    THEN [Kill(W, W.recordingProcess, "SIGKILL") EXCEPT
              !.recordingProcess = 0, !.isRecording = FALSE,
              !.currentRecordingPath = Null, !.originalRecordingPath = Null]
    ELSE W

\* stopRecording of main.js past its guard; stdinOK is whether the stdin
\* of the process is there and not destroyed.
MainStop(W, stdinOK) ==
    LET p == W.recordingProcess
        s == W.procs[p].sess
        k == W.nstops + 1
        W1 == IF W.procs[p].shell
              THEN LET Wa == IF stdinOK
                             THEN [W EXCEPT !.timers = Append(@, Timer("stdin", StdinTimeoutMs, s, Null, k))]
                             ELSE [W EXCEPT !.tasks = Append(@, Task("taskkill", "issued", p, s, Null))]
                   IN [Wa EXCEPT !.procs[p].listeners = @ + 1]
              ELSE IF stdinOK THEN W ELSE Kill(W, p, "SIGTERM")
    IN Stopped([W1 EXCEPT !.timers = Append(@, Timer("forceKill", ForceKillMs, s, Null, k)),
                          !.forceKillTimeout = k], s)

NotRecording == Reply("stop", FALSE, "No recording in progress")

\* a stopRecording whose refusal runs the reset of its catch block
MainStopRecordingResetting(W, stdinOK) ==
    IF ~W.isRecording \/ W.recordingProcess = 0
    THEN [W EXCEPT !.reply = NotRecording,
                   !.isRecording = FALSE, !.recordingProcess = 0,
                   !.currentRecordingPath = Null, !.originalRecordingPath = Null]
    ELSE MainStop(W, stdinOK)

\* stopRecording of main.js
MainStopRecording(W, stdinOK) ==
    IF ~W.isRecording \/ W.recordingProcess = 0
    THEN [W EXCEPT !.reply = NotRecording]
    ELSE MainStop(W, stdinOK)

\* ------------------------------------------- FFmpegService: handlers

\* _cleanupForceKillTimeout
CleanupForceKillTimeout(W) ==
    IF W.forceKillTimeout # 0
    THEN [ClearTimeout(W, W.forceKillTimeout) EXCEPT !.forceKillTimeout = 0]
    ELSE W

\* a _resetRecordingState that leaves the path of the recording
ResetRecordingStateKeepingPath(W) ==
    CleanupForceKillTimeout([W EXCEPT !.isRecording = FALSE,
                                      !.recordingProcess = 0])

\* _resetRecordingState
ResetRecordingState(W) ==
    CleanupForceKillTimeout([W EXCEPT !.isRecording = FALSE,
                                      !.recordingProcess = 0,
                                      !.currentRecordingPath = Null])

\* the close handler _setupScreenProcessHandlers attaches
SvcScreenClose(W, p) ==
    LET c == W.procs[p].code
        W1 == ResetRecordingState(W)
    IN IF c = 0 THEN SendCompleted(W1, W.procs[p].sess, TRUE)
       ELSE IF c # -1 THEN SendCompleted(W1, W.procs[p].sess, FALSE)
       ELSE W1

\* the error handler _setupScreenProcessHandlers attaches
SvcScreenError(W, p) ==
    SendCompleted(ResetRecordingState(W), W.procs[p].sess, FALSE)

\* resolve(...) of the promise _startCameraRecording returned: the first
\* call settles it
Resolve(W, s, res) ==
    IF W.sess[s].res = "pending" THEN [W EXCEPT !.sess[s].res = res] ELSE W

\* attemptRecording of _startCameraRecording.  Its currentAttempt is the
\* variable of _startCameraRecording, which no handler writes: the handlers
\* count in the copy they were passed.
SvcAttemptRecording(W, s) ==
    IF W.sess[s].attempt >= NumFallbacks
    THEN Resolve(SendCompleted(ResetRecordingState(W), s, FALSE), s, "fail")
    ELSE [Spawn(W, s, "camera", TRUE, <<s, W.sess[s].attempt>>) EXCEPT
              !.isRecording = TRUE,
              !.currentRecordingPath = <<s, W.sess[s].attempt>>]

\* the close handler _setupCameraProcessHandlers attaches
SvcCameraClose(W0, p, seen) ==
    LET c == W0.procs[p].code
        sg == W0.procs[p].signal
        s == W0.procs[p].sess
        currentOutputPath == W0.procs[p].path
        wasManuallyStopped ==
            \/ sg = "SIGTERM" \/ sg = "SIGKILL"
            \/ (sg = "none" /\ c # 0 /\ c # -1)
            \/ (sg = "none" /\ c = 1)
        W == IF ~wasManuallyStopped /\ c = 0 /\ ~W0.procs[p].io
             THEN Looked(W0, currentOutputPath, seen) ELSE W0
    IN IF wasManuallyStopped
       THEN Resolve(SendCompleted(ResetRecordingState(W), s,
                                  sg = "SIGTERM" \/ (sg = "none" /\ c = 1)), s, "ok")
       ELSE IF c = 0 /\ ~W.procs[p].io /\ FileSize(W, currentOutputPath, seen) > 0
            THEN Resolve(SendCompleted(ResetRecordingState(W), s, TRUE), s, "ok")
            ELSE IF W.procs[p].tries + 1 < NumFallbacks
                 THEN [W EXCEPT !.procs[p].tries = @ + 1,
                                !.sess[s].fails = @ + 1,
                                !.timers = Append(@, Timer("retry", RetryMs, s, Null, 0))]
                 ELSE Resolve(SendCompleted(ResetRecordingState(
                                  [W EXCEPT !.sess[s].fails = @ + 1]), s, FALSE), s, "fail")

\* the error handler _setupCameraProcessHandlers attaches
SvcCameraError(W, p) ==
    LET s == W.procs[p].sess
    IN IF W.procs[p].tries + 1 >= NumFallbacks
       THEN Resolve(SendCompleted(ResetRecordingState(
                        [W EXCEPT !.sess[s].fails = @ + 1]), s, FALSE), s, "fail")
       ELSE [W EXCEPT !.procs[p].tries = @ + 1,
                      !.sess[s].fails = @ + 1,
                      !.timers = Append(@, Timer("retry", RetryMs, s, Null, 0))]

SvcEmitClose(W, p, seen) ==
    IF W.procs[p].src = "camera" THEN SvcCameraClose(W, p, seen)
    ELSE SvcScreenClose(W, p)

\* the exec(taskkill) callback of _stopShellRecording
SvcTaskkillCallback(W, t) ==
    IF t.phase = "err"
    THEN IF W.recordingProcess = 0
         THEN [W EXCEPT !.thrown = TRUE]
         ELSE Kill(W, W.recordingProcess, "SIGTERM")
    ELSE ResetRecordingState(CleanupForceKillTimeout(W))

\* the callback _setupForceKillTimeout arms
SvcForceKill(W) ==
    IF W.recordingProcess # 0 /\ ~Killed(W, W.recordingProcess)
    THEN ResetRecordingState(Kill(W, W.recordingProcess, "SIGKILL"))
    ELSE W

\* _setupForceKillTimeout
SetupForceKillTimeout(W, s, k) ==
    [W EXCEPT !.timers = Append(@, Timer("forceKill", ForceKillMs, s, Null, k)),
              !.forceKillTimeout = k]

\* stopRecording of FFmpegService past its guard: _stopShellRecording for a
\* shell process or one without a usable stdin, _stopScreenRecording
\* otherwise, then _setupForceKillTimeout
SvcStop(W, stdinOK) ==
    LET p == W.recordingProcess
        s == W.procs[p].sess
        k == W.nstops + 1
        W1 == IF W.procs[p].shell \/ ~stdinOK
              THEN [W EXCEPT !.tasks = Append(@, Task("taskkill", "issued", p, s, Null))]
              ELSE W
    IN Stopped(SetupForceKillTimeout(W1, s, k), s)

\* stopRecording of FFmpegService
SvcStopRecording(W, stdinOK) ==
    IF ~W.isRecording \/ W.recordingProcess = 0
    THEN [W EXCEPT !.reply = NotRecording]
    ELSE SvcStop(W, stdinOK)

\* ------------------------------------------------------------ state

\* The requests startRecording is given: the source (a desktop, window or
\* region capture spawned directly; the same with an audio device, spawned
\* through the shell; the OBS virtual camera) and, in main.js, whether the
\* region is to be selected first.  FFmpegService is handed the region.
\* The regular camera and its fallback ladder are requested with
\* CameraOptions.  named says whether the request carries the name its
\* sourceType needs (cameraName for a camera, windowTitle for a window; a
\* desktop request needs none): the requests that lack it are a window
\* without windowTitle and a camera without cameraName.
CameraOptions == {[src |-> "camera", region |-> FALSE, named |-> TRUE]}
Unnamed == {[src |-> "screen", region |-> FALSE, named |-> FALSE],
            [src |-> "camera", region |-> FALSE, named |-> FALSE]}
StartOptions(i) ==
    IF i = "main"
    THEN {[src |-> "screen", region |-> FALSE, named |-> TRUE],
          [src |-> "screen", region |-> TRUE, named |-> TRUE],
          [src |-> "audio", region |-> FALSE, named |-> TRUE],
          [src |-> "obs", region |-> FALSE, named |-> TRUE]} \cup Unnamed
    ELSE {[src |-> "screen", region |-> FALSE, named |-> TRUE]} \cup Unnamed

\* the error keys, context:message, of the handleWithRetry calls
Keys == {"spawn:ENOENT", "stop:EPERM"}

\* input and output while nothing is selected and nothing made
Nothing == [kind |-> "none"]

\* the recording state after construction
Idle ==
    /\ isRecording = FALSE
    /\ recordingProcess = 0
    /\ currentRecordingPath = Null
    /\ originalRecordingPath = Null
    /\ timelineAdded = FALSE
    /\ forceKillTimeout = 0
    /\ procs = <<>>
    /\ timers = <<>>
    /\ tasks = <<>>
    /\ starts = <<>>
    /\ sess = <<>>
    /\ reply = NoReply
    /\ thrown = FALSE
    /\ nstops = 0
    /\ rendererIsRecording = FALSE
    /\ availableAudioDevices = <<>>
    /\ enumerations = <<>>
    /\ errorCounts = [k \in Keys |-> 0]

Init ==
    /\ impl \in {"main", "service"}
    /\ resolveUp \in BOOLEAN
    /\ impl = "service" => resolveUp      \* FFmpegService never asks Resolve
    /\ input = Nothing /\ output = Nothing
    /\ Idle

\* A session: the variables of its closures (currentAttempt and
\* ioErrorDetected of the camera ladder), the number of its attempts that
\* were given up for the next one (fails), and what its callers have seen:
\* how startRecording answered, the stopRecording calls accepted (twice:
\* one of them came right after another, nothing in between), the
\* completion events sent, how many of them said success and how many
\* carried a timeline result that said failure.
NewSession(src) ==
    [src |-> src, attempt |-> 0, ioError |-> FALSE, fails |-> 0,
     res |-> "pending", stops |-> 0, twice |-> FALSE, done |-> 0, oks |-> 0,
     advisories |-> 0]

\* ------------------------------------------------ main.js: startRecording

Suspend(W, s, src, phase) ==
    [W EXCEPT !.starts = Append(@, [sess |-> s, src |-> src, phase |-> phase])]

\* startRecording from the spawn on, for the sources that spawn at once
MainSpawnAndRecord(W, s, src) ==
    [Spawn(W, s, src, src # "screen", <<s, 0>>) EXCEPT
         !.isRecording = TRUE,
         !.currentRecordingPath = <<s, 0>>,
         !.originalRecordingPath = <<s, 0>>,
         !.sess[s].res = "ok",
         !.reply = Reply("start", TRUE, "none")]

\* startRecording once the region has been obtained (or was not asked for).
\* The virtual camera branch awaits the audio device lookup before it
\* spawns; the regular camera branch leaves the spawn to the reaction of
\* getBestAudioDevice() and goes on to set the recording state and return.
MainContinueStart(W, s, src) ==
    IF src = "obs" THEN Suspend(W, s, src, "audio")
    ELSE IF src = "camera"
         THEN [Suspend(W, s, src, "ladder") EXCEPT
                   !.isRecording = TRUE,
                   !.currentRecordingPath = <<s, 0>>,
                   !.originalRecordingPath = <<s, 0>>,
                   !.sess[s].res = "ok",
                   !.reply = Reply("start", TRUE, "none")]
         ELSE MainSpawnAndRecord(W, s, src)

\* the call ended with an exception its caller receives (the promise of
\* the handler is rejected): options.cameraName.replace on an undefined
\* cameraName
Rejected == Reply("start-rejected", FALSE, "TypeError")

\* startRecording past its guard, to its first await or its return.  A
\* window request without windowTitle is taken as a desktop request; a
\* camera request without cameraName throws where the name is cleaned,
\* outside the try block.
MainAcceptStart(W, o) ==
    LET s == Len(W.sess) + 1
        W1 == [W EXCEPT !.timelineAdded = FALSE,
                        !.sess = Append(@, NewSession(o.src))]
    IN IF o.src = "camera" /\ ~o.named
       THEN [W EXCEPT !.timelineAdded = FALSE, !.reply = Rejected]
       ELSE IF o.region THEN Suspend(W1, s, o.src, "region")
       ELSE MainContinueStart(W1, s, o.src)

AlreadyRecording == Reply("start", FALSE, "Recording already in progress")

\* a startRecording that lost its guard
MainStartRecordingUnguarded(W, o) == MainAcceptStart(W, o)

\* startRecording from its first line to its first await or its return
MainStartRecording(W, o) ==
    IF W.isRecording
    THEN [W EXCEPT !.reply = AlreadyRecording]
    ELSE MainAcceptStart(W, o)

\* a startRecording that takes a cancelled selection for no region and goes
\* on to record the full desktop
MainResumeStartThroughCancel(W, i, outcome) ==
    LET c == W.starts[i]
        W1 == Silent([W EXCEPT !.starts = RemoveAt(@, i)])
    IN IF c.phase = "region"
       THEN IF outcome # "small" THEN MainContinueStart(W1, c.sess, c.src)
            ELSE [W1 EXCEPT !.sess[c.sess].res = "fail",
                            !.reply = Reply("start", FALSE, outcome)]
       ELSE IF c.phase = "ladder" THEN AttemptRecording(W1, c.sess)
       ELSE MainSpawnAndRecord(W1, c.sess, c.src)

\* startRecording resumed after an await; outcome is what the awaited
\* region selection gave: a region, a cancellation, a region below 16x16
RegionOutcomes == {"ok", "cancelled", "small"}
MainResumeStart(W, i, outcome) ==
    LET c == W.starts[i]
        W1 == Silent([W EXCEPT !.starts = RemoveAt(@, i)])
    IN IF c.phase = "region"
       THEN IF outcome = "ok" THEN MainContinueStart(W1, c.sess, c.src)
            ELSE [W1 EXCEPT !.sess[c.sess].res = "fail",
                            !.reply = Reply("start", FALSE, outcome)]
       ELSE IF c.phase = "ladder" THEN AttemptRecording(W1, c.sess)
       ELSE MainSpawnAndRecord(W1, c.sess, c.src)

\* ------------------------------------------ FFmpegService: startRecording

\* startRecording of FFmpegService: with a camera it runs the first
\* attemptRecording and stays suspended on the promise of
\* _startCameraRecording.  Without cameraName
\* _generateCameraFallbackCommands throws, which the catch block answers;
\* a window without windowTitle is spawned with title=undefined.
SvcStartRecording(W, o) ==
    IF W.isRecording
    THEN [W EXCEPT !.reply = AlreadyRecording]
    ELSE LET s == Len(W.sess) + 1
         IN IF o.src = "camera" /\ ~o.named
            THEN [ResetRecordingState(W) EXCEPT !.reply = Reply("start", FALSE, "TypeError")]
            ELSE IF o.src = "camera"
            THEN Silent(SvcAttemptRecording(
                     [W EXCEPT !.sess = Append(@, NewSession(o.src))], s))
            ELSE
            [Spawn([W EXCEPT !.sess = Append(@, NewSession(o.src))], s, o.src, FALSE, <<s, 0>>) EXCEPT
                 !.isRecording = TRUE,
                 !.currentRecordingPath = <<s, 0>>,
                 !.sess[s].res = "ok",
                 !.reply = Reply("start", TRUE, "none")]

\* ---------------------------------------------------------- actions

StartRecording(o) ==
    /\ isRecording \/ (Len(sess) < MaxSessions /\ Len(sess) + nstops < MaxCalls)
    /\ Commit(IF impl = "main" THEN MainStartRecording(World, o)
              ELSE SvcStartRecording(World, o))
    /\ UNCHANGED <<impl, resolveUp, input, output, others>>

ResumeStart(i, outcome) ==
    /\ i \in DOMAIN starts
    /\ starts[i].phase = "region" \/ outcome = "ok"
    /\ Commit(MainResumeStart(World, i, outcome))
    /\ UNCHANGED <<impl, resolveUp, input, output, others>>

StopRecording(stdinOK) ==
    /\ IF ~isRecording \/ recordingProcess = 0
       THEN stdinOK
       ELSE /\ nstops < MaxStops /\ Len(sess) + nstops < MaxCalls
            /\ stdinOK => procs[recordingProcess].st = "running"
    /\ Commit(IF impl = "main" THEN MainStopRecording(World, stdinOK)
              ELSE SvcStopRecording(World, stdinOK))
    /\ UNCHANGED <<impl, resolveUp, input, output, others>>

\* A process ends and its 'close' event is emitted.  A running process
\* ends by itself with an exit code (0, 1 or another one, 2) or by the
\* signal it was sent; a process taskkill has ended closes with code 1.
\* The listeners see the code and the signal; nothing reads them later.
ExitCodes == {-1, 0, 1, 2}      \* -1 is null: the process ended by a signal
CloseWith(W1, p, code, seen) ==
    LET W0 == [W1 EXCEPT
                   !.procs[p].st = "closed", !.procs[p].code = code,
                   !.procs[p].late = \E i \in DOMAIN W1.timers :
                       /\ W1.timers[i].kind = "forceKill" /\ W1.timers[i].left = 0
                       /\ W1.timers[i].sess = W1.procs[p].sess,
                   !.procs[p].signal = IF code = -1 THEN W1.procs[p].sent ELSE "none"]
        W == IF impl = "main" THEN MainEmitClose(W0, p, seen) ELSE SvcEmitClose(W0, p, seen)
    IN [W EXCEPT !.procs[p].code = -1, !.procs[p].signal = "none",
                 !.procs[p].listeners = 0, !.procs[p].tries = 0, !.procs[p].io = FALSE]

EmitClose(p, code, seen) ==
    /\ p \in DOMAIN procs
    /\ \/ /\ procs[p].st = "running"
          /\ code \in {0, 1, 2} \/ (code = -1 /\ procs[p].sent # "none")
       \/ /\ procs[p].st = "exited"
          /\ code = 1
    /\ Commit(CloseWith(Silent(World), p, code, seen))
    /\ UNCHANGED <<impl, resolveUp, input, output, others>>

\* The process of a camera attempt or of a directly spawned capture could
\* not be spawned (executable not found, permission denied): 'error' is
\* emitted, then 'close' with the negative errno as its code (taken as 2:
\* the handlers tell 0, 1, null and the rest apart).  Nothing was sent to
\* the process before, and it wrote no file.
EmitError(p) ==
    /\ p \in DOMAIN procs
    /\ procs[p].st = "running" /\ procs[p].src \in {"camera", "screen"}
    /\ procs[p].sent = "none" /\ procs[p].listeners = 0
    /\ \A i \in DOMAIN tasks : tasks[i].target # p
    /\ LET W == Silent(World)
           W1 == IF procs[p].src = "camera"
                 THEN IF impl = "main" THEN AttemptError(W, p) ELSE SvcCameraError(W, p)
                 ELSE IF impl = "main" THEN ScreenError(W, p) ELSE SvcScreenError(W, p)
       IN Commit(CloseWith(W1, p, 2, 0))
    /\ UNCHANGED <<impl, resolveUp, input, output, others>>

\* the stderr of a camera attempt carries one of the I/O error markers
StderrIOError(p) ==
    /\ p \in DOMAIN procs
    /\ procs[p].st = "running" /\ procs[p].src = "camera"
    /\ IF impl = "main"
       THEN /\ ~sess[procs[p].sess].ioError
            /\ Commit(Silent([World EXCEPT !.sess[procs[p].sess].ioError = TRUE]))
       ELSE /\ ~procs[p].io
            /\ Commit(Silent([World EXCEPT !.procs[p].io = TRUE]))
    /\ UNCHANGED <<impl, resolveUp, input, output, others>>

\* taskkill /F /T /PID does its work: it ends the process tree if the
\* process is there, and fails otherwise (or because it was refused)
TaskkillRun(i, okay) ==
    /\ i \in DOMAIN tasks
    /\ tasks[i].type = "taskkill" /\ tasks[i].phase = "issued"
    /\ LET p == tasks[i].target
       IN IF okay
          THEN /\ procs[p].st = "running"
               /\ Commit(Silent([World EXCEPT !.procs[p].st = "exited",
                                              !.tasks[i].phase = "ok"]))
          ELSE Commit(Silent([World EXCEPT !.tasks[i].phase = "err"]))
    /\ UNCHANGED <<impl, resolveUp, input, output, others>>

\* an exec callback runs
RunTask(i) ==
    /\ i \in DOMAIN tasks
    /\ tasks[i].type = "taskkill" /\ tasks[i].phase # "issued"
    /\ LET W == Silent([World EXCEPT !.tasks = RemoveAt(@, i)])
       IN Commit(IF impl = "main" THEN MainTaskkillCallback(W, tasks[i])
                 ELSE SvcTaskkillCallback(W, tasks[i]))
    /\ UNCHANGED <<impl, resolveUp, input, output, others>>

\* time passes by one tick of the clock; a timer that is due runs first
Tick ==
    /\ timers # <<>>
    /\ \A i \in DOMAIN timers : timers[i].left > 0
    /\ Commit(Silent([World EXCEPT
           !.timers = [i \in DOMAIN timers |-> [timers[i] EXCEPT !.left = @ - 1]]]))
    /\ UNCHANGED <<impl, resolveUp, input, output, others>>

\* the first due timer runs its callback
Due(i) == /\ i \in DOMAIN timers
          /\ timers[i].left = 0
          /\ \A j \in 1..(i - 1) : timers[j].left > 0

FireTimer(i, seen) ==
    /\ Due(i)
    /\ timers[i].kind = "retry" => Len(procs) < MaxSpawns
    /\ LET t == timers[i]
           W == Silent([World EXCEPT !.timers = RemoveAt(@, i)])
       IN Commit(CASE t.kind = "forceKill" ->
                          IF impl = "main" THEN MainForceKill(W) ELSE SvcForceKill(W)
                   [] t.kind = "stdin" -> MainStdinTimeout(W, t)
                   [] t.kind = "obsCheck" -> OBSCheck(W, t, seen)
                   [] t.kind = "retry" ->
                          IF impl = "main" THEN AttemptRecording(W, t.sess)
                          ELSE SvcAttemptRecording(W, t.sess)
                   [] OTHER -> W)
    /\ UNCHANGED <<impl, resolveUp, input, output, others>>

Next ==
    \/ \E o \in StartOptions(impl) : StartRecording(o)
    \/ \E i \in DOMAIN starts, outcome \in RegionOutcomes : ResumeStart(i, outcome)
    \/ \E b \in BOOLEAN : StopRecording(b)
    \/ \E p \in DOMAIN procs, code \in ExitCodes, seen \in SizeClasses : EmitClose(p, code, seen)
    \/ \E p \in DOMAIN procs : EmitError(p)
    \/ \E i \in DOMAIN tasks, b \in BOOLEAN : TaskkillRun(i, b)
    \/ \E i \in DOMAIN tasks : RunTask(i)
    \/ Tick
    \/ \E i \in DOMAIN timers, seen \in SizeClasses : FireTimer(i, seen)

Spec == Init /\ [][Next]_vars

\* The same program asked for regular camera recordings only: what the
\* fallback ladder does.
NextLadder ==
    \/ \E o \in CameraOptions :
           /\ isRecording \/ Len(sess) + nstops < MaxLadderCalls
           /\ StartRecording(o)
    \/ \E i \in DOMAIN starts : ResumeStart(i, "ok")
    \/ \E b \in BOOLEAN :
           /\ ~isRecording \/ recordingProcess = 0 \/ Len(sess) + nstops < MaxLadderCalls
           /\ StopRecording(b)
    \/ \E p \in DOMAIN procs, code \in ExitCodes, seen \in SizeClasses : EmitClose(p, code, seen)
    \/ \E p \in DOMAIN procs : EmitError(p)
    \/ \E p \in DOMAIN procs : StderrIOError(p)
    \/ \E i \in DOMAIN tasks, b \in BOOLEAN : TaskkillRun(i, b)
    \/ \E i \in DOMAIN tasks : RunTask(i)
    \/ Tick
    \/ \E i \in DOMAIN timers, seen \in SizeClasses : FireTimer(i, seen)

SpecLadder == Init /\ [][NextLadder]_vars

\* ------------------------------------------------- region validation

\* The regions the selection overlay can send: integer corners and sizes.
Regions ==
    [kind : {"region"}, x : 0..MaxCoord, y : 0..MaxCoord,
     width : 0..MaxRegion, height : 0..MaxRegion]

TooSmall(r) == r.width < MinRegionSize \/ r.height < MinRegionSize

\* Math.floor(n / 2) * 2
Even(n) == (n \div 2) * 2

\* validateRegion rounding odd sizes up instead of down
ValidateRegionRoundingUp(r) ==
    IF TooSmall(r)
    THEN [kind |-> "error", error |-> "small"]
    ELSE [kind |-> "region", x |-> r.x, y |-> r.y,
          width |-> Even(r.width + 1), height |-> Even(r.height + 1)]

\* validateRegion comparing only the width with the minimum
ValidateRegionWidthOnly(r) ==
    IF r.width < MinRegionSize
    THEN [kind |-> "error", error |-> "small"]
    ELSE [kind |-> "region", x |-> r.x, y |-> r.y,
          width |-> Even(r.width), height |-> Even(r.height)]

\* RegionSelector.validateRegion: the adjusted region, or the error thrown
ValidateRegion(r) ==
    IF TooSmall(r)
    THEN [kind |-> "error", error |-> "small"]
    ELSE [kind |-> "region", x |-> r.x, y |-> r.y,
          width |-> Even(r.width), height |-> Even(r.height)]

\* the region branch of startRecording in main.js: the size check and the
\* -video_size, -offset_x and -offset_y it puts in the command
MainRegionArgs(r) ==
    IF r.width < MinRegionSize \/ r.height < MinRegionSize
    THEN [kind |-> "error", error |-> "small"]
    ELSE [kind |-> "region", x |-> r.x, y |-> r.y,
          width |-> Even(r.width), height |-> Even(r.height)]

InitRegion ==
    /\ impl = "main" /\ resolveUp = TRUE
    /\ input \in Regions /\ output = Nothing
    /\ Idle

\* RegionSelector.validateRegion is applied to the selected region
ValidateSelected ==
    /\ output' = ValidateRegion(input)
    /\ UNCHANGED <<impl, resolveUp, input, isRecording, recordingProcess,
                   currentRecordingPath, originalRecordingPath, timelineAdded,
                   forceKillTimeout, procs, timers, tasks, starts, sess, reply,
                   thrown, nstops, rendererIsRecording, others>>

\* startRecording of main.js resumes with the selected region
ResumeWithRegion(i) ==
    /\ i \in DOMAIN starts /\ starts[i].phase = "region"
    /\ output' = MainRegionArgs(input)
    /\ Commit(MainResumeStart(World, i,
                  IF MainRegionArgs(input).kind = "error" THEN "small" ELSE "ok"))
    /\ UNCHANGED <<impl, resolveUp, input, others>>

NextRegion ==
    \/ /\ Len(sess) < MaxSessions
       /\ StartRecording([src |-> "screen", region |-> TRUE, named |-> TRUE])
    \/ \E i \in DOMAIN starts : ResumeWithRegion(i)
    \/ ValidateSelected

SpecRegion == InitRegion /\ [][NextRegion]_vars

\* ------------------------------------------------ command generation

\* A text is a sequence of pieces, a command a sequence of tokens, each
\* token a text.  Sp is the blank and Q the double quote.
Sp == " "
Q == "\""
T(s) == <<s>>

Framerates == {"unset", "15", "60"}
Resolutions == {"unset", "desktop", "1280x720"}
\* <<>> is "not given"
Titles == {<<>>, <<"App">>, <<"My", Sp, "App">>, <<"My", Sp, "Big", Sp, "App">>}
AudioDevices == {<<>>, <<"Mic">>, <<"USB", Sp, "Mic">>}
OutputPaths == {<<"rec.mp4">>, <<"My", Sp, "Videos/rec.mp4">>}

\* the options of a desktop or window request, with the output path
\* startRecording makes for it
Requests ==
    [kind : {"request"}, sourceType : {"desktop", "window"},
     framerate : Framerates, resolution : Resolutions,
     windowTitle : Titles, audioDevice : AudioDevices, outputPath : OutputPaths,
     cameraName : {<<>>}, catalog : {<<>>}, attempt : {0}]

\* The audio devices the enumeration can find, each with its display name
\* and the alternative name of the line that follows it, <<>> without one.
Devices ==
    {[name |-> <<"Microphone", Sp, "(USB)">>, altName |-> <<"@device_cm_1", "\\", "wave_2">>],
     [name |-> <<"Line", Sp, "In">>, altName |-> <<>>]}

\* availableAudioDevices, in the order of the enumeration
Catalogs ==
    {<<>>} \cup {<<d>> : d \in Devices}
           \cup {<<p[1], p[2]>> : p \in {q \in Devices \X Devices : q[1] # q[2]}}

\* the names getAvailableCameras can find
Cameras ==
    {<<"HD", Sp, "Webcam">>, <<"OBS", Sp, "Virtual", Sp, "Camera">>,
     <<"Cam", Sp, "[", "HD", "]">>}

\* String.prototype.trim
RECURSIVE Trim(_)
Trim(s) ==
    IF s # <<>> /\ Head(s) = Sp THEN Trim(Tail(s))
    ELSE IF s # <<>> /\ s[Len(s)] = Sp THEN Trim(SubSeq(s, 1, Len(s) - 1))
    ELSE s

\* options.cameraName.replace(/[\[\]]/g, '').trim()
CleanCameraName(o) == Trim(SelectSeq(o.cameraName, LAMBDA c : c \notin {"[", "]"}))

\* cleanCameraName.toLowerCase().includes('obs virtual')
IsOBS(name) ==
    \E i \in 1..(Len(name) - 2) :
        name[i] = "OBS" /\ name[i + 1] = Sp /\ name[i + 2] = "Virtual"

\* the options of a camera request: a camera of the list, the audio device
\* selected from the catalog or none, and the attempt of the ladder the
\* command is for
CameraRequests ==
    {r \in [kind : {"request"}, sourceType : {"camera"},
            framerate : Framerates, resolution : Resolutions,
            windowTitle : {<<>>}, audioDevice : {<<>>} \cup {d.name : d \in Devices},
            outputPath : OutputPaths, cameraName : Cameras, catalog : Catalogs,
            attempt : 0..(NumFallbacks - 1)] :
        /\ r.audioDevice = <<>> \/ \E i \in DOMAIN r.catalog : r.catalog[i].name = r.audioDevice
        /\ IsOBS(r.cameraName) => r.attempt = 0}

\* options.framerate || '30', and the default of the destructuring
Framerate(o) == IF o.framerate = "unset" THEN "30" ELSE o.framerate

\* Array.prototype.join(' ')
RECURSIVE Join(_)
Join(tokens) ==
    IF tokens = <<>> THEN <<>>
    ELSE IF Len(tokens) = 1 THEN tokens[1]
    ELSE tokens[1] \o <<Sp>> \o Join(Tail(tokens))

\* The words a shell makes of a command line: split at the blanks outside
\* double quotes.
RECURSIVE Words(_, _, _)
Words(s, word, quoted) ==
    IF s = <<>> THEN (IF word = <<>> THEN <<>> ELSE <<word>>)
    ELSE IF Head(s) = Sp /\ ~quoted
    THEN (IF word = <<>> THEN <<>> ELSE <<word>>) \o Words(Tail(s), <<>>, FALSE)
    ELSE Words(Tail(s), Append(word, Head(s)),
               IF Head(s) = Q THEN ~quoted ELSE quoted)

ShellWords(s) == Words(s, <<>>, FALSE)

\* scale filter, not for "desktop" and not with a region
Scaling(o) ==
    IF o.resolution \notin {"unset", "desktop"}
    THEN <<T("-vf"), <<"scale=", o.resolution>>>>
    ELSE <<>>

\* generateFFmpegArgs dropping the preset
GenerateFFmpegArgsWithoutPreset(o) ==
    (IF o.sourceType = "window"
     THEN <<T("-f"), T("gdigrab"), T("-framerate"), T(Framerate(o)),
            T("-i"), <<"title=">> \o o.windowTitle>>
     ELSE <<T("-f"), T("gdigrab"), T("-framerate"), T(Framerate(o)),
            T("-i"), T("desktop")>>)
    \o <<T("-c:v"), T("libx264"), T("-crf"), T("22"), T("-pix_fmt"), T("yuv420p")>>
    \o Scaling(o)

\* FFmpegService.generateFFmpegArgs without a region; a title that is not
\* given is interpolated as "undefined"
GenerateFFmpegArgs(o) ==
    (IF o.sourceType = "window"
     THEN <<T("-f"), T("gdigrab"), T("-framerate"), T(Framerate(o)),
            T("-i"), <<"title=">> \o (IF o.windowTitle = <<>> THEN T("undefined")
                                       ELSE o.windowTitle)>>
     ELSE <<T("-f"), T("gdigrab"), T("-framerate"), T(Framerate(o)),
            T("-i"), T("desktop")>>)
    \o <<T("-c:v"), T("libx264"), T("-preset"), T("ultrafast"),
         T("-crf"), T("22"), T("-pix_fmt"), T("yuv420p")>>
    \o Scaling(o)

\* literal words as texts
Ts(ss) == [i \in DOMAIN ss |-> <<ss[i]>>]

\* FFmpegService._generateCameraFallbackCommands: the command line of the
\* attempt, as the shell splits it
SvcCameraCommand(o) ==
    LET video == <<<<"video=", Q>> \o CleanCameraName(o) \o <<Q>>>>
        target == IF o.resolution = "unset" THEN "1920x1080" ELSE o.resolution
        scale == <<<<"-vf", Sp, "scale=", target>>>>
        scaleFilter == IF target # "1920x1080" THEN scale ELSE <<<<>>>>
        encoding == Ts(<<"-c:v", "libx264", "-preset", "ultrafast", "-crf", "22",
                         "-pix_fmt", "yuv420p">>)
        out == <<<<Q>> \o o.outputPath \o <<Q>>>>
    IN ShellWords(Join(
           IF IsOBS(CleanCameraName(o))
           THEN Ts(<<"ffmpeg", "-f", "dshow", "-framerate", "60", "-i">>) \o video
                \o encoding \o scale \o out
           ELSE Ts(<<"ffmpeg", "-f", "dshow", "-framerate", Framerate(o)>>)
                \o (CASE o.attempt = 0 -> Ts(<<"-video_size", "1920x1080">>)
                      [] o.attempt = 1 -> <<>>
                      [] OTHER -> Ts(<<"-video_size", "1280x720">>))
                \o Ts(<<"-i">>) \o video \o encoding
                \o (IF o.attempt = 2 THEN scale ELSE scaleFilter) \o out))

\* FFmpegService._startScreenRecording: the executable and its arguments
SvcScreenCommand(o) == <<T("ffmpeg")>> \o GenerateFFmpegArgs(o) \o <<o.outputPath>>

\* the video input of startRecording in main.js without a region
MainVideoInput(o) ==
    IF o.sourceType = "window" /\ o.windowTitle # <<>>
    THEN <<T("-f"), T("gdigrab"), T("-framerate"), T(Framerate(o)),
           T("-i"), <<"title=", Q>> \o o.windowTitle \o <<Q>>>>
    ELSE <<T("-f"), T("gdigrab"), T("-framerate"), T(Framerate(o)),
           T("-i"), T("desktop")>>

\* getBestAudioDevice: the display name of the first device named as a
\* microphone, else of the first device, else null
GetBestAudioDevice(catalog) ==
    LET mics == {i \in DOMAIN catalog : \E j \in DOMAIN catalog[i].name :
                                            catalog[i].name[j] = "Microphone"}
    IN IF catalog = <<>> THEN <<>>
       ELSE IF mics # {} THEN catalog[CHOOSE i \in mics : \A j \in mics : i <= j].name
       ELSE catalog[1].name

\* getCorrectAudioDeviceName: the alternative name of the device when the
\* catalog has one for it
GetCorrectAudioDeviceName(catalog, displayName) ==
    LET found == {i \in DOMAIN catalog : catalog[i].name = displayName}
        first == CHOOSE i \in found : \A j \in found : i <= j
    IN IF found # {} /\ catalog[first].altName # <<>> THEN catalog[first].altName
       ELSE displayName

\* replace(/\\/g, '\\\\')
RECURSIVE Escape(_)
Escape(s) ==
    IF s = <<>> THEN <<>>
    ELSE (IF Head(s) = "\\" THEN <<"\\", "\\">> ELSE <<Head(s)>>) \o Escape(Tail(s))

\* startRecording in main.js with a camera: the command line of the
\* virtual camera, or of the attempt of the ladder, as the shell splits it
MainCameraCommand(o) ==
    LET video == <<<<"video=", Q>> \o CleanCameraName(o) \o <<Q>>>>
        target == IF o.resolution = "unset" THEN "1920x1080" ELSE o.resolution
        scale == <<<<"-vf", Sp, "scale=", target>>>>
        scaleFilter == IF target # "1920x1080" THEN scale ELSE <<<<>>>>
        selected == IF o.audioDevice # <<>> THEN o.audioDevice
                    ELSE GetBestAudioDevice(o.catalog)
        audioDevice == IF IsOBS(CleanCameraName(o))
                       THEN (IF selected = <<>> THEN <<>>
                             ELSE GetCorrectAudioDeviceName(o.catalog, selected))
                       ELSE GetBestAudioDevice(o.catalog)
        audio == IF audioDevice = <<>> THEN <<>>
                 ELSE Ts(<<"-f", "dshow", "-i">>)
                      \o <<<<"audio=", Q>> \o Escape(audioDevice) \o <<Q>>>>
        encoding == Ts(<<"-c:v", "libx264", "-preset", "ultrafast", "-crf", "22",
                         "-pix_fmt", "yuv420p">>)
                    \o (IF audioDevice = <<>> THEN <<>>
                        ELSE Ts(<<"-c:a", "aac", "-b:a", "128k">>))
                    \o Ts(<<"-flush_packets", "1">>)
        out == <<<<Q>> \o o.outputPath \o <<Q>>>>
    IN ShellWords(Join(
           IF IsOBS(CleanCameraName(o))
           THEN Ts(<<"ffmpeg", "-f", "dshow", "-framerate", "60", "-i">>) \o video
                \o audio \o encoding \o scale \o out
           ELSE Ts(<<"ffmpeg", "-f", "dshow", "-framerate", Framerate(o)>>)
                \o (CASE o.attempt = 0 -> Ts(<<"-video_size", "1920x1080">>)
                      [] o.attempt = 1 -> <<>>
                      [] OTHER -> Ts(<<"-video_size", "1280x720">>))
                \o Ts(<<"-i">>) \o video \o audio \o encoding
                \o (IF o.attempt = 2 THEN scale ELSE scaleFilter) \o out))

\* startRecording in main.js: with an audio device one command line for
\* the shell, otherwise the executable and its arguments
MainScreenCommand(o) ==
    IF o.audioDevice # <<>>
    THEN ShellWords(
             <<"ffmpeg", Sp, "-f", Sp, "dshow", Sp, "-i", Sp, "audio=", Q>>
             \o o.audioDevice \o <<Q, Sp>> \o Join(MainVideoInput(o))
             \o <<Sp, "-c:v", Sp, "libx264", Sp, "-preset", Sp, "ultrafast", Sp,
                  "-crf", Sp, "22", Sp, "-pix_fmt", Sp, "yuv420p", Sp,
                  "-c:a", Sp, "aac", Sp, "-b:a", Sp, "128k", Sp, Q>>
             \o o.outputPath \o <<Q>>)
    ELSE <<T("ffmpeg")>> \o MainVideoInput(o)
         \o <<T("-c:v"), T("libx264"), T("-preset"), T("ultrafast"),
              T("-crf"), T("22"), T("-pix_fmt"), T("yuv420p")>>
         \o Scaling(o) \o <<o.outputPath>>

InitCommand ==
    /\ impl \in {"main", "service"} /\ resolveUp = TRUE
    /\ input \in Requests \cup CameraRequests /\ output = Nothing
    /\ Idle

Unstarted ==
    UNCHANGED <<impl, resolveUp, input, isRecording, recordingProcess,
                currentRecordingPath, originalRecordingPath, timelineAdded,
                forceKillTimeout, procs, timers, tasks, starts, sess, reply,
                thrown, nstops, rendererIsRecording, others>>

\* main.js builds the command of the request
MainBuildsCommand ==
    /\ impl = "main"
    /\ output' = [kind |-> "command", tokens |-> IF input.sourceType = "camera"
                                            THEN MainCameraCommand(input)
                                            ELSE MainScreenCommand(input)]
    /\ Unstarted

\* FFmpegService builds the command of the request
SvcBuildsCommand ==
    /\ impl = "service"
    /\ output' = [kind |-> "command", tokens |-> IF input.sourceType = "camera"
                                            THEN SvcCameraCommand(input)
                                            ELSE SvcScreenCommand(input)]
    /\ Unstarted

NextCommand == MainBuildsCommand \/ SvcBuildsCommand

SpecCommand == InitCommand /\ [][NextCommand]_vars

\* ------------------------------------------------------- ErrorHandler

\* the recording state, which ErrorHandler and the source lists leave alone
Recording ==
    <<isRecording, recordingProcess, currentRecordingPath, originalRecordingPath,
      timelineAdded, forceKillTimeout, procs, timers, tasks, starts, sess, reply,
      thrown, nstops, rendererIsRecording>>

\* the options of the handleWithRetry calls of a run: maxRetries given or not
RetryOptions == [kind : {"options"}, provided : BOOLEAN, maxRetries : 0..MaxRetriesOption]

\* options.maxRetries || this.maxRetries
Limit(o) == IF o.provided /\ o.maxRetries # 0 THEN o.maxRetries ELSE DefaultMaxRetries

\* the number of handleWithRetry calls made so far
Calls == IF output.kind = "retry" THEN output.n ELSE 0

\* ErrorHandler.handleWithRetry for the error key k: what the call did is
\* left in output, failedAfter being the count in the message of the error
\* thrown, -1 when none is thrown
HandleWithRetry(k) ==
    LET currentCount == errorCounts[k]
    IN /\ Calls < MaxRetryCalls
       /\ IF currentCount >= Limit(input)
          THEN /\ errorCounts' = [errorCounts EXCEPT ![k] = 0]
               /\ output' = [kind |-> "retry", n |-> Calls + 1, key |-> k, invoked |-> 0,
                             delay |-> 0, failedAfter |-> currentCount]
          ELSE /\ errorCounts' = [errorCounts EXCEPT ![k] = currentCount + 1]
               /\ output' = [kind |-> "retry", n |-> Calls + 1, key |-> k, invoked |-> 1,
                             delay |-> RetryDelays[IF currentCount < 2 THEN currentCount + 1
                                                   ELSE 3],
                             failedAfter |-> -1]
       /\ UNCHANGED <<impl, resolveUp, input, availableAudioDevices, enumerations, Recording>>

InitRetry ==
    /\ impl = "main" /\ resolveUp = TRUE
    /\ input \in RetryOptions /\ output = Nothing
    /\ Idle

NextRetry == \E k \in Keys : HandleWithRetry(k)

SpecRetry == InitRetry /\ [][NextRetry]_vars

\* -------------------------------------------------------- source lists

\* the states the source lists leave alone
Untouched == <<impl, resolveUp, input, errorCounts, Recording>>

\* getAvailableAudioDevices: the enumeration command is started
Enumerate(caller) ==
    /\ Len(enumerations) < MaxEnumerations
    /\ enumerations' = Append(enumerations,
                              [by |-> caller, st |-> "running", found |-> <<>>])

\* updateAvailableSources after its awaits of the windows and the cameras:
\* with an empty cache the audio devices are enumerated, otherwise the
\* cached ones are sent with 'sources-updated'
UpdateAvailableSources ==
    /\ IF availableAudioDevices = <<>>
       THEN Enumerate("update") /\ UNCHANGED output
       ELSE /\ output' = [kind |-> "sources", audioDevices |-> availableAudioDevices]
            /\ UNCHANGED enumerations
    /\ UNCHANGED <<availableAudioDevices, Untouched>>

\* getBestAudioDevice: the cached devices, or with an empty cache the
\* devices of an enumeration of its own
BestAudioDevice ==
    /\ IF availableAudioDevices = <<>>
       THEN Enumerate("best") /\ UNCHANGED output
       ELSE /\ output' = [kind |-> "best",
                          name |-> GetBestAudioDevice(availableAudioDevices)]
            /\ UNCHANGED enumerations
    /\ UNCHANGED <<availableAudioDevices, Untouched>>

\* the callback of exec in getAvailableAudioDevices, and its caller resumed:
\* updateAvailableSources assigns the cache and sends it, getBestAudioDevice
\* picks a device and caches nothing
EnumerationDone(i, found) ==
    /\ enumerations[i].st = "running"
    /\ enumerations' = [enumerations EXCEPT ![i].st = "done", ![i].found = found]
    /\ IF enumerations[i].by = "update"
       THEN /\ availableAudioDevices' = found
            /\ output' = [kind |-> "sources", audioDevices |-> found]
       ELSE /\ UNCHANGED availableAudioDevices
            /\ output' = [kind |-> "best", name |-> GetBestAudioDevice(found)]
    /\ UNCHANGED Untouched

InitSources ==
    /\ impl = "main" /\ resolveUp = TRUE
    /\ input = Nothing /\ output = Nothing
    /\ Idle

NextSources ==
    \/ UpdateAvailableSources
    \/ BestAudioDevice
    \/ \E i \in DOMAIN enumerations, found \in Catalogs : EnumerationDone(i, found)

SpecSources == InitSources /\ [][NextSources]_vars

\* ------------------------------------------------------------ claims

Alive == {p \in DOMAIN procs : procs[p].st = "running"}

ForceKillTimers(ts, s) == {i \in DOMAIN ts : ts[i].kind = "forceKill" /\ ts[i].sess = s}

\* Nothing of session s is left to happen: its processes have closed and no
\* timer, callback or suspended call of it is pending.
Quiesced(s) ==
    /\ \E p \in DOMAIN procs : procs[p].sess = s
    /\ \A p \in DOMAIN procs : procs[p].sess = s => procs[p].st = "closed"
    /\ \A i \in DOMAIN timers : timers[i].sess # s
    /\ \A i \in DOMAIN tasks : tasks[i].sess # s
    /\ \A i \in DOMAIN starts : starts[i].sess # s

\* C1: in main.js no capture process is spawned while another one is
\* running, and recordingProcess is not pointed at another process while the
\* one it refers to is running.
C1_OneCaptureProcess ==
    [][impl = "main" =>
          /\ Len(procs') > Len(procs) => Alive = {}
          /\ (recordingProcess # 0 /\ recordingProcess' \notin {0, recordingProcess})
                 => recordingProcess \notin Alive]_vars

\* C2: startRecording called while isRecording is true answers
\* {success: false, error} and changes nothing of the session: no field, no
\* timer, no callback, no process.
C2_StartWhileRecordingRejected ==
    [][(isRecording /\ \E o \in StartOptions(impl) : StartRecording(o)) =>
          /\ reply' = AlreadyRecording
          /\ UNCHANGED <<isRecording, recordingProcess, currentRecordingPath,
                         originalRecordingPath, timelineAdded, forceKillTimeout,
                         procs, timers, tasks, starts, sess, thrown, nstops>>]_vars

\* C2, reached: a start was refused in main.js while a session was being
\* stopped, its force-kill timer pending.
C2_Witness ==
    /\ impl = "main" /\ isRecording /\ reply = AlreadyRecording
    /\ recordingProcess \in Alive
    /\ \E i \in DOMAIN timers : timers[i].kind = "forceKill"

\* C3: in main.js every session sends at most one 'recording:completed'.
C3_SingleFireCompletion ==
    impl = "main" => \A s \in DOMAIN sess : sess[s].done <= 1

\* C4: a session whose start answered success has delivered a completion
\* once its process has exited and nothing of it is left to run.
C4_StartedSessionCompletes ==
    \A s \in DOMAIN sess : (sess[s].res = "ok" /\ Quiesced(s)) => sess[s].done >= 1

\* C5: in main.js addRecordingToTimeline is called at most once per file.
C5_TimelineAddedOncePerFile ==
    impl = "main" => \A p \in DOMAIN procs : procs[p].added <= 1

\* C6: a timer armed by stopRecording for one session (force kill, taskkill
\* fallback) that fires while recordingProcess belongs to a later session
\* neither signals nor taskkills that process nor resets the state.
C6_NoStaleKill ==
    [][\A i \in DOMAIN timers, seen \in SizeClasses :
          (/\ FireTimer(i, seen)
           /\ timers[i].kind \in {"forceKill", "stdin"}
           /\ recordingProcess # 0
           /\ procs[recordingProcess].sess > timers[i].sess)
          => UNCHANGED <<procs, tasks, isRecording, recordingProcess,
                         currentRecordingPath>>]_vars

\* C7: when a close event has been handled and has left the state idle, no
\* force-kill timer armed for the session of that process is pending.
C7_CloseCancelsForceKill ==
    [][\A p \in DOMAIN procs :
          (/\ procs[p].st # "closed" /\ procs'[p].st = "closed"
           /\ ~isRecording' /\ recordingProcess' = 0)
          => ForceKillTimers(timers', procs[p].sess) = {}]_vars

\* C8: when the force-kill timer of a session fires and the process of that
\* session is still running, the process is sent SIGKILL and the state is
\* reset.
C8_DeadlineForcesIdle ==
    [][\A i \in DOMAIN timers, seen \in SizeClasses :
          (/\ FireTimer(i, seen)
           /\ timers[i].kind = "forceKill"
           /\ recordingProcess \in Alive
           /\ procs[recordingProcess].sess = timers[i].sess)
          => /\ ~isRecording' /\ recordingProcess' = 0
             /\ procs'[recordingProcess].sent = "SIGKILL"]_vars

\* C9: a session that was stopped twice in immediate succession ends as a
\* session stopped once is meant to: its process gone, the state idle, one
\* completion delivered, no exception raised.
C9_DoubleStopAsSingle ==
    \A s \in DOMAIN sess :
        (sess[s].twice /\ s = Len(sess) /\ Quiesced(s)) =>
            /\ ~isRecording /\ recordingProcess = 0
            /\ sess[s].done = 1
            /\ ~thrown

\* C10: a stopRecording issued for a session that already accepted one, its
\* process not yet exited, is refused or does nothing, and a session never
\* has two force-kill timers pending.
C10_SecondStopNoOp ==
    [][/\ \A b \in BOOLEAN :
             (/\ StopRecording(b)
              /\ recordingProcess \in Alive
              /\ isRecording
              /\ sess[procs[recordingProcess].sess].stops > 0)
             => UNCHANGED <<isRecording, recordingProcess, currentRecordingPath,
                            originalRecordingPath, timelineAdded, forceKillTimeout,
                            procs, timers, tasks, starts, sess, thrown, nstops>>
       /\ \A s \in DOMAIN sess : Cardinality(ForceKillTimers(timers', s)) <= 1]_vars

\* C11: stopRecording called while isRecording is false or no process
\* handle is held answers 'No recording in progress' and changes nothing:
\* no signal, no timer, no callback, no field.
C11_StopWhileIdleRejected ==
    [][((~isRecording \/ recordingProcess = 0) /\ \E b \in BOOLEAN : StopRecording(b)) =>
          /\ reply' = NotRecording
          /\ UNCHANGED <<isRecording, recordingProcess, currentRecordingPath,
                         originalRecordingPath, timelineAdded, forceKillTimeout,
                         procs, timers, tasks, starts, sess, thrown, nstops>>]_vars

\* C11, reached: a stop was refused in main.js after a session had ended,
\* the path of that session still stored and a timer of it still pending.
C11_Witness ==
    /\ impl = "main" /\ reply = NotRecording
    /\ ~isRecording /\ currentRecordingPath # Null
    /\ timers # <<>>

\* C12: a session whose process closed with the force-kill timer of that
\* session due, the timer firing right after the close handlers, has
\* delivered exactly one completion once nothing of it is left to run.
C12_CloseThenForceKillOnce ==
    \A s \in DOMAIN sess :
        (Quiesced(s) /\ \E p \in DOMAIN procs : procs[p].sess = s /\ procs[p].late)
            => sess[s].done = 1

\* The attempts of a session: the processes spawned for it, in order.
Attempts(s) == {p \in DOMAIN procs : procs[p].sess = s}

\* C13: a regular-camera session spawns at most NumFallbacks capture
\* processes, whatever the outcomes of its attempts.
C13_LadderBounded ==
    \A s \in DOMAIN sess :
        sess[s].src = "camera" => Cardinality(Attempts(s)) <= NumFallbacks

\* C14: the k-th process spawned for a camera session (k = 0, 1, 2) runs
\* the k-th candidate command and writes the k-th output path, so no two
\* attempts of the session share a command or a path.  (A process carries
\* the pair <<session, currentAttempt>> its command and path were made from.)
C14_NextCandidateEachRetry ==
    \A s \in DOMAIN sess :
        sess[s].src = "camera" =>
            \A p \in Attempts(s) :
                procs[p].path = <<s, Cardinality({q \in Attempts(s) : q < p})>>

\* ioErrorDetected as the handlers of process p see it: the variable of the
\* startRecording closure in main.js, the parameter of the handlers in
\* FFmpegService.
IOErrorDetected(p) ==
    IF impl = "main" THEN sess[procs[p].sess].ioError ELSE procs[p].io

\* the candidate a process runs: the currentAttempt its command and its
\* path were made from
Candidate(p) == procs[p].path[2]

RetryPending(ts, s) == \E i \in DOMAIN ts : ts[i].kind = "retry" /\ ts[i].sess = s

\* C15: when the first or the second attempt of a camera session exits with
\* a non-zero code, no stop having been requested and no I/O error seen, the
\* ladder goes on: no completion is delivered for that exit and the next
\* attempt is scheduled (so that a third attempt that succeeds gives the one
\* completion of the session).
C15_FailedAttemptsThenSuccess ==
    [][\A p \in DOMAIN procs, code \in {1, 2}, seen \in SizeClasses :
          (/\ EmitClose(p, code, seen)
           /\ procs[p].src = "camera" /\ procs[p].st = "running"
           /\ sess[procs[p].sess].stops = 0
           /\ ~IOErrorDetected(p)
           /\ Candidate(p) < NumFallbacks - 1)
          => /\ sess'[procs[p].sess].done = sess[procs[p].sess].done
             /\ RetryPending(timers', procs[p].sess)]_vars

\* C16: once every candidate of a camera session has failed and nothing of
\* the session is left to run, the session has delivered exactly one
\* completion, a failure, and (no later session having started) the state
\* is idle, so that startRecording passes its guard.
C16_ExhaustionReported ==
    \A s \in DOMAIN sess :
        (sess[s].src = "camera" /\ sess[s].fails >= NumFallbacks /\ Quiesced(s)) =>
            /\ sess[s].done = 1 /\ sess[s].oks = 0
            /\ s = Len(sess) =>
                   /\ ~isRecording /\ recordingProcess = 0
                   /\ currentRecordingPath = Null

\* C17: when an attempt of a camera session on whose stderr an I/O error
\* marker was seen exits with code 0, whatever the size of its file, no
\* success is delivered for it, and either the ladder has moved to the next
\* candidate (the counter attemptRecording reads is past the candidate of
\* the attempt, and a retry is scheduled) or a failure is delivered.
C17_IOErrorNeverSuccess ==
    [][\A p \in DOMAIN procs, seen \in SizeClasses :
          (/\ EmitClose(p, 0, seen)
           /\ procs[p].src = "camera" /\ procs[p].st = "running"
           /\ IOErrorDetected(p))
          => /\ sess'[procs[p].sess].oks = sess[procs[p].sess].oks
             /\ \/ /\ sess'[procs[p].sess].attempt > Candidate(p)
                   /\ RetryPending(timers', procs[p].sess)
                \/ sess'[procs[p].sess].done > sess[procs[p].sess].done]_vars

\* wasManuallyStopped of the camera close handlers, for a process that
\* closes with the given code (-1: by the signal it was sent)
WasManuallyStopped(p, code) ==
    IF code = -1 THEN procs[p].sent \in {"SIGTERM", "SIGKILL"} ELSE code # 0

\* seen is the size of the file of process p: the step stats no other file
\* whose size is still to be drawn, and the file of p was not seen otherwise
SizeOfOutput(p, seen) ==
    /\ procs[p].size \in {Unknown, seen}
    /\ \A q \in Attempts(procs[p].sess) \ {p} : procs[q].size # Unknown

\* C18: when a camera attempt closes and the exit is classified as manually
\* stopped, one completion is delivered, a success if and only if the file
\* of that attempt is larger than MinValidBytes, and no retry is scheduled.
C18_StoppedAttemptValidated ==
    [][\A p \in DOMAIN procs, code \in ExitCodes, seen \in SizeClasses :
          (/\ EmitClose(p, code, seen)
           /\ procs[p].src = "camera"
           /\ WasManuallyStopped(p, code)
           /\ SizeOfOutput(p, seen))
          => /\ sess'[procs[p].sess].done = sess[procs[p].sess].done + 1
             /\ sess'[procs[p].sess].oks > sess[procs[p].sess].oks <=> seen = 2
             /\ ~RetryPending(timers', procs[p].sess)]_vars

\* C19: when the process of a desktop, window or region capture, or of the
\* shell-spawned capture with an audio device, closes with a non-zero exit
\* code, one completion is delivered: a success if the output file is larger
\* than MinValidBytes, a failure otherwise.
C19_NonZeroExitRecovered ==
    [][\A p \in DOMAIN procs, code \in {1, 2}, seen \in SizeClasses :
          (/\ EmitClose(p, code, seen)
           /\ procs[p].src \in {"screen", "audio"}
           /\ SizeOfOutput(p, seen))
          => /\ sess'[procs[p].sess].done = sess[procs[p].sess].done + 1
             /\ sess'[procs[p].sess].oks > sess[procs[p].sess].oks <=> seen = 2]_vars

\* the completions of session s that said success: false
Failures(ss, s) == ss[s].done - ss[s].oks

\* C20: when the process of a session whose stopRecording was accepted
\* closes because of the stop (it quit with code 0, it was ended by
\* taskkill, or it was killed by the SIGTERM or SIGKILL sent to it) and its
\* output file is larger than MinValidBytes, no completion with
\* success: false is delivered.
C20_StoppedValidNeverFailure ==
    [][\A p \in DOMAIN procs, code \in ExitCodes :
          (/\ EmitClose(p, code, 2)
           /\ sess[procs[p].sess].stops > 0
           /\ procs[p].st = "exited" \/ code \in {-1, 0}
           /\ SizeOfOutput(p, 2))
          => Failures(sess', procs[p].sess) = Failures(sess, procs[p].sess)]_vars

\* the sum of the first n numbers of a sequence
RECURSIVE Sum(_, _)
Sum(q, n) == IF n = 0 THEN 0 ELSE Sum(q, n - 1) + q[n]

\* the calls of addRecordingToTimeline made so far, and the completions
\* sent so far: those that said success, those that said failure, those
\* that carried a failed timeline result
TimelineCalls(ps) == Sum([p \in DOMAIN ps |-> ps[p].added], Len(ps))
Successes(ss) == Sum([s \in DOMAIN ss |-> ss[s].oks], Len(ss))
AllFailures(ss) == Sum([s \in DOMAIN ss |-> ss[s].done - ss[s].oks], Len(ss))
Advisories(ss) == Sum([s \in DOMAIN ss |-> ss[s].advisories], Len(ss))

\* C21: every completion sent after addRecordingToTimeline was invoked says
\* success, whatever the timeline result: a step that invokes it adds one
\* success per call and no failure to the completions sent, and a failed
\* timeline result only adds to the advisories.
C21_TimelineResultAdvisory ==
    [][LET n == TimelineCalls(procs') - TimelineCalls(procs)
       IN /\ n > 0 => /\ Successes(sess') = Successes(sess) + n
                      /\ AllFailures(sess') = AllFailures(sess)
          /\ Advisories(sess') - Advisories(sess) = (IF TimelineResult THEN 0 ELSE n)]_vars

\* C21, reached: Resolve cannot be had, and a stopped session of main.js
\* whose file was valid has delivered a success that carries the failed
\* timeline result.
C21_Witness ==
    /\ impl = "main" /\ ~resolveUp
    /\ \E s \in DOMAIN sess :
           /\ sess[s].stops > 0 /\ sess[s].oks = 1 /\ sess[s].advisories = 1
           /\ Quiesced(s)

\* C22: when the capture process of a session cannot be spawned, the
\* startRecording call of that session has answered {success: false, error}
\* (and not success), and once the failure has been handled the state is
\* idle: isRecording false, no process handle, no current recording path.
C22_SpawnFailureFailsStart ==
    [][\A p \in DOMAIN procs :
          EmitError(p) =>
              /\ sess'[procs[p].sess].res = "fail"
              /\ ~isRecording' /\ recordingProcess' = 0
              /\ currentRecordingPath' = Null]_vars

\* C23: a startRecording that passes the isRecording guard with a camera
\* request without cameraName or a window request without windowTitle
\* returns {success: false, error}, spawns no process and changes nothing
\* of the session state.
C23_UnnamedSourceRejected ==
    [][\A o \in Unnamed :
          (~isRecording /\ StartRecording(o)) =>
              /\ reply'.op = "start" /\ ~reply'.ok
              /\ UNCHANGED <<isRecording, recordingProcess, currentRecordingPath,
                             originalRecordingPath, timelineAdded, forceKillTimeout,
                             procs, timers, tasks, starts, sess, thrown, nstops>>]_vars

\* C24: a startRecording whose region selection was cancelled returns
\* {success: false, error}; the call raises nothing, spawns nothing, arms
\* nothing and leaves isRecording, recordingProcess and the recording paths
\* as they were, so that a start is accepted afterwards if one was before.
C24_CancelledSelectionBenign ==
    [][\A i \in DOMAIN starts :
          (starts[i].phase = "region" /\ ResumeStart(i, "cancelled")) =>
              /\ reply' = Reply("start", FALSE, "cancelled")
              /\ sess'[starts[i].sess].res = "fail"
              /\ UNCHANGED <<isRecording, recordingProcess, currentRecordingPath,
                             originalRecordingPath, forceKillTimeout, procs,
                             timers, tasks, thrown, nstops>>]_vars

\* C24, reached: a selection was cancelled with nothing recording, and the
\* state is idle.
C24_Witness ==
    /\ reply = Reply("start", FALSE, "cancelled")
    /\ ~isRecording /\ recordingProcess = 0 /\ currentRecordingPath = Null
    /\ \E s \in DOMAIN sess : sess[s].res = "fail"

\* getState() of FFmpegService reports all of {isRecording, hasProcess,
\* currentRecordingPath non-null} or none of them
ConsistentState(rec, proc, path) ==
    /\ rec <=> proc # 0
    /\ rec <=> path # Null

\* C25: in FFmpegService the reported state is consistent before and after
\* every step, and a step that leaves the recording state (they all go
\* through _resetRecordingState) leaves forceKillTimeout null and the timer
\* it referred to cancelled.
C25_ServiceStateConsistent ==
    [][impl = "service" =>
          /\ ConsistentState(isRecording, recordingProcess, currentRecordingPath)
          /\ ConsistentState(isRecording', recordingProcess', currentRecordingPath')
          /\ (isRecording /\ ~isRecording') =>
                 /\ forceKillTimeout' = 0
                 /\ \A i \in DOMAIN timers' :
                        ~(timers'[i].kind = "forceKill" /\ timers'[i].k = forceKillTimeout)]_vars

\* C25, reached: FFmpegService between two attempts of the camera ladder,
\* the three fields set and the handle that of the attempt that failed.
C25_Witness ==
    /\ impl = "service"
    /\ isRecording /\ recordingProcess # 0 /\ currentRecordingPath # Null
    /\ procs[recordingProcess].st = "closed"
    /\ RetryPending(timers, procs[recordingProcess].sess)

\* C26: once the capture process of a session has been spawned, the
\* startRecording call of the session has answered {success: true,
\* filePath}: it does not stay pending while the session records.
C26_StartAnswersAtSpawn ==
    \A s \in DOMAIN sess : Attempts(s) # {} => sess[s].res = "ok"

\* C27: for a region whose width and height are at least MinRegionSize,
\* validation (RegionSelector.validateRegion, and the region branch of
\* main.js) gives a rectangle with the same x and y whose width and height
\* are even, at least MinRegionSize, not above the originals and less than
\* 2 below them.
C27_EvenDimensionsNeverIncreased ==
    (input.kind = "region" /\ ~TooSmall(input) /\ output # Nothing) =>
        /\ output.kind = "region"
        /\ output.x = input.x /\ output.y = input.y
        /\ \A d \in {<<input.width, output.width>>, <<input.height, output.height>>} :
               /\ d[2] % 2 = 0
               /\ d[2] <= d[1] /\ d[1] - d[2] <= 1
               /\ d[2] >= MinRegionSize

\* C27, reached: a region of odd width and height, one of them the least
\* odd size allowed, has been validated.
C27_Witness ==
    /\ input.width = MinRegionSize + 1 /\ input.height = MinRegionSize + 3
    /\ output.kind = "region"
    /\ output.width = MinRegionSize /\ output.height = MinRegionSize + 2

\* C28: for a region whose width or height is below MinRegionSize,
\* validation gives the region-too-small error and no rectangle, and the
\* startRecording of main.js that resumes with it returns {success: false,
\* error}, spawns nothing and leaves the recording state as it was.
C28_SmallRegionRefused ==
    [][(input.kind = "region" /\ TooSmall(input)) =>
          /\ output' \in {Nothing, [kind |-> "error", error |-> "small"]}
          /\ \A i \in DOMAIN starts :
                 ResumeWithRegion(i) =>
                     /\ reply' = Reply("start", FALSE, "small")
                     /\ sess'[starts[i].sess].res = "fail"
                     /\ UNCHANGED <<isRecording, recordingProcess, currentRecordingPath,
                                    originalRecordingPath, forceKillTimeout, procs,
                                    timers, tasks, thrown, nstops>>]_vars

\* C28, reached: main.js has refused a region that is wide enough and one
\* pixel short in height, and is idle.
C28_Witness ==
    /\ input.width = MinRegionSize /\ input.height = MinRegionSize - 1
    /\ output.kind = "error"
    /\ reply = Reply("start", FALSE, "small")
    /\ ~isRecording /\ procs = <<>>

\* the places of a command where the token flag is followed by value
Occurrences(tokens, flag, value) ==
    {i \in 1..(Len(tokens) - 1) : tokens[i] = T(flag) /\ tokens[i + 1] = T(value)}

\* the output path as a token of its own, bare or quoted for the shell
IsOutputPath(token, o) ==
    token \in {o.outputPath, <<Q>> \o o.outputPath \o <<Q>>}

\* a request for the whole desktop, as the implementation takes it
DesktopRequest(o) == o.kind = "request" /\ o.sourceType = "desktop"

\* C29: for every desktop request without a region, whatever its framerate
\* and resolution, the last token of the generated command is the output
\* path, and -c:v libx264, -preset ultrafast, -crf 22 and -pix_fmt yuv420p
\* each occur in it exactly once.
C29_DesktopCommandShape ==
    (DesktopRequest(input) /\ output.kind = "command") =>
        /\ IsOutputPath(output.tokens[Len(output.tokens)], input)
        /\ \A e \in {<<"-c:v", "libx264">>, <<"-preset", "ultrafast">>,
                     <<"-crf", "22">>, <<"-pix_fmt", "yuv420p">>} :
               /\ Cardinality(Occurrences(output.tokens, e[1], e[2])) = 1
               /\ Cardinality({i \in DOMAIN output.tokens : output.tokens[i] = T(e[1])}) = 1

\* C29, reached: FFmpegService has built the command of a desktop request
\* with a framerate and a WxH resolution, the scale filter before the path.
C29_Witness ==
    /\ impl = "service" /\ DesktopRequest(input)
    /\ input.framerate = "60" /\ input.resolution = "1280x720"
    /\ output.kind = "command"
    /\ output.tokens[Len(output.tokens) - 1] = <<"scale=", "1280x720">>
    /\ output.tokens[Len(output.tokens)] = input.outputPath

\* the window title of a request, quoted
TitleToken(o) == <<"title=", Q>> \o o.windowTitle \o <<Q>>

\* C30: for every window request the title is in the generated command as
\* one token, title="<title>", whatever blanks the title has.
C30_WindowTitleQuoted ==
    (input.kind = "request" /\ input.sourceType = "window" /\ input.windowTitle # <<>>
     /\ output.kind = "command") =>
        /\ Cardinality({i \in DOMAIN output.tokens : output.tokens[i] = TitleToken(input)}) = 1
        /\ \A i \in DOMAIN output.tokens :
               Head(output.tokens[i]) = "title=" => output.tokens[i] = TitleToken(input)

\* the tokens of a command that begin with the given piece
TokensOf(tokens, piece) ==
    {i \in DOMAIN tokens : tokens[i] # <<>> /\ Head(tokens[i]) = piece}

\* C31: in the command built for a camera of the list and the audio devices
\* of the catalog, the camera's name stands verbatim inside video="..." and
\* the audio device inside audio="..." is the display name of a device of
\* the catalog, for the virtual camera and for every attempt of a regular
\* camera.
C31_DisplayNamesVerbatim ==
    (input.kind = "request" /\ input.sourceType = "camera" /\ output.kind = "command") =>
        /\ TokensOf(output.tokens, "video=") # {}
        /\ \A i \in TokensOf(output.tokens, "video=") :
               output.tokens[i] = <<"video=", Q>> \o input.cameraName \o <<Q>>
        /\ \A i \in TokensOf(output.tokens, "audio=") :
               \E d \in DOMAIN input.catalog :
                   output.tokens[i] = <<"audio=", Q>> \o input.catalog[d].name \o <<Q>>

\* C32: in every generated command with an audio input, the audio input
\* (-i audio=...) stands before the video input (-i video=..., -i desktop,
\* -i title=...).
C32_AudioBeforeVideo ==
    output.kind = "command" =>
        \A a \in TokensOf(output.tokens, "audio=") :
            \A v \in TokensOf(output.tokens, "video=") \cup TokensOf(output.tokens, "title=")
                     \cup TokensOf(output.tokens, "desktop") :
                /\ a < v
                /\ output.tokens[a - 1] = T("-i") /\ output.tokens[v - 1] = T("-i")

\* C38: after a 'recording:completed' event, success or failure, that
\* leaves the main process idle, the renderer's isRecording is false as
\* well: the renderer never stays in the recording state while the main
\* process is idle.
C38_RendererFollowsCompletion ==
    [][(/\ Successes(sess') + AllFailures(sess') > Successes(sess) + AllFailures(sess)
        /\ ~isRecording')
       => ~rendererIsRecording']_vars

\* C34: once a stopRecording has been accepted for a camera session, no
\* further capture process is spawned for it, whatever close or retry
\* timer comes afterwards, and none of its processes is alive while
\* isRecording is false.
C34_NoSpawnAfterStop ==
    [][\A s \in DOMAIN sess :
           (sess[s].src = "camera" /\ sess[s].stops > 0) =>
               /\ Attempts(s)' = Attempts(s)
               /\ ~isRecording' => \A p \in Attempts(s)' : procs'[p].st # "running"]_vars

\* C35: when the close of a process of an earlier session is handled while
\* a later session is recording with a process of its own, the handlers
\* leave isRecording, recordingProcess and currentRecordingPath of the
\* later session as they are.
C35_StaleCloseLeavesNewSession ==
    [][\A p \in DOMAIN procs :
           (/\ procs[p].st = "running" /\ procs'[p].st = "closed"
            /\ isRecording /\ recordingProcess # 0
            /\ procs[recordingProcess].sess > procs[p].sess)
           => UNCHANGED <<isRecording, recordingProcess, currentRecordingPath>>]_vars

\* C37: no deferred callback calls a method of recordingProcess after it
\* was set to null: the taskkill callback that reports an error after the
\* close handler or the force-kill timer has cleared the handle raises no
\* exception.
C37_NoNullDereference == ~thrown

\* C36: the 'error' and 'close' events of one capture process cause at
\* most one reaction together: in the step that handles them at most one
\* completion is delivered or one retry armed, the attempt counter of the
\* session advances by at most one, and at most one retry timer is pending.
C36_OneReactionPerProcess ==
    [][\A p \in DOMAIN procs :
           (procs[p].st # "closed" /\ procs'[p].st = "closed") =>
               LET s == procs[p].sess
                   retries(ts) == Cardinality({i \in DOMAIN ts : ts[i].kind = "retry"})
               IN /\ (sess'[s].done - sess[s].done) + (retries(timers') - retries(timers)) <= 1
                  /\ sess'[s].attempt - sess[s].attempt <= 1
                  /\ retries(timers') <= 1]_vars

\* C39: while a retry of the camera ladder is pending (the failed
\* attempt's process has closed, the next is not spawned yet) isRecording
\* is true, and no startRecording is accepted.
C39_LiveDuringBackoff ==
    [][(\E i \in DOMAIN timers : timers[i].kind = "retry") =>
           /\ isRecording
           /\ Len(sess') = Len(sess)]_vars

\* the bound of a run: options.maxRetries when provided, 3 otherwise
Bound == IF input.provided THEN input.maxRetries ELSE 3

\* C40: counted from zero per key, with the bound B (options.maxRetries
\* when provided, whatever B >= 0, and 3 otherwise), each of the first B
\* calls for a key invokes retryFunction once after the delay 1000, 2000,
\* then 5000 ms, and call B + 1 throws 'Failed after B retries', invokes
\* nothing and sets the count of the key back to zero.
C40_RetriesBounded ==
    [][(input.kind = "options" /\ output' # output) =>
           LET k == output'.key
               c == errorCounts[k]
           IN /\ c <= Bound
              /\ c < Bound => /\ output'.invoked = 1 /\ output'.failedAfter = -1
                              /\ output'.delay = (CASE c = 0 -> 1000 [] c = 1 -> 2000
                                                    [] OTHER -> 5000)
                              /\ errorCounts'[k] = c + 1
              /\ c = Bound => /\ output'.invoked = 0 /\ output'.failedAfter = Bound
                              /\ errorCounts'[k] = 0
              /\ \A j \in Keys \ {k} : errorCounts'[j] = errorCounts[j]]_vars

\* C33: the audio devices are enumerated once: whatever updateAvailableSources
\* and getBestAudioDevice calls are made, overlapping or not, and whatever the
\* first enumeration found, the enumeration command is run at most once and
\* the cached devices, once assigned, stay the same.
C33_AudioEnumeratedOnce ==
    [][/\ Len(enumerations') <= 1
       /\ \A i \in DOMAIN enumerations :
              (enumerations[i].by = "update" /\ enumerations[i].st = "done")
                  => availableAudioDevices' = enumerations[i].found]_vars

====
